---- MODULE Spec2Model ----
(***************************************************************************)
(* A model of docsn/json/parse.py: the type serializer get_type and the    *)
(* declaration-tree walk parse_modules / parse_classes /                   *)
(* parse_class_children, followed by save_toc.                             *)
(*                                                                         *)
(* JSON values are tagged records:                                         *)
(*   [k |-> "num", d |-> digits]   a number                                *)
(*   [k |-> "bool", b |-> b]       true / false                            *)
(*   [k |-> "str", s |-> chars]    a string, as a sequence of characters   *)
(*   [k |-> "list", v |-> seq]     an array                                *)
(*   [k |-> "dict", f |-> fields]  an object: a function from the names of *)
(*                                 the fields it HAS to their values       *)
(* Python strings are sequences of one-character strings, so that          *)
(* name[0], re.sub and str.split act on characters as they do in the code. *)
(***************************************************************************)
EXTENDS Integers, Sequences, FiniteSets, TLC

VARIABLES
  \* ---- get_type, called on its own
  tnode,     \* the node passed to get_type
  tpre,      \* the prefix argument
  tpost,     \* the suffix argument
  tres,      \* what the call returned
  tpc,       \* "idle" | "ready" | "returned"
  \* ---- the walk
  data,      \* data['children'] of docs.json: the candidate modules
  idx,       \* how many of them the loop of parse_modules has consumed
  modules,   \* the module lookup (dict: cleaned name -> record)
  classes,   \* the class lookup (dict: fullname -> record)
  korder,    \* the keys of `classes` in insertion order (dict iteration order)
  searches,  \* the search index
  skipped,   \* the skip log
  files,     \* the per-class documents written by save_class
  toc,       \* the table of contents written by save_toc
  pc         \* "idle" | "walk" | "save" | "toc" | "done" | "aborted"

tvars == <<tnode, tpre, tpost, tres, tpc>>
wvars == <<data, idx, modules, classes, korder, searches, skipped, files, toc, pc>>
vars  == <<tnode, tpre, tpost, tres, tpc,
           data, idx, modules, classes, korder, searches, skipped, files, toc, pc>>

----------------------------------------------------------------------------
(* Bounds *)

\* the largest type descriptor handed to get_type, counted in values
MaxSize == 4
\* the most parameters of a function declaration handed to get_type
MaxParams == 2
\* the most call signatures and parameters, together, of a method
MaxMethod == 3
\* the largest declaration tree, counted in declaration nodes
MaxNodes == 4

----------------------------------------------------------------------------
(* JSON values and Python's string operations *)

Str(s)   == [k |-> "str", s |-> s]
Num(d)   == [k |-> "num", d |-> d]
Bool(b)  == [k |-> "bool", b |-> b]
List(v)  == [k |-> "list", v |-> v]
Dict(f)  == [k |-> "dict", f |-> f]
NoFields == <<>>

\* a dict from a set of (field, value) pairs with distinct fields
RECURSIVE Fields(_)
Fields(pairs) ==
  IF pairs = {} THEN NoFields
  ELSE LET p == CHOOSE q \in pairs : TRUE
       IN  (p[1] :> p[2]) @@ Fields(pairs \ {p})

Node(pairs) == Dict(Fields(pairs))

Named(n) == Node({<<"name", Str(n)>>})

\* `key in c` for a dict c
Has(c, key) == key \in DOMAIN c.f

\* c.get(key, default) for a dict c
Get(c, key, default) == IF Has(c, key) THEN c.f[key] ELSE default

\* f"{v}": a string is itself, a number its digits, a bool its Python name
Format(v) ==
  CASE v.k = "str"  -> v.s
    [] v.k = "num"  -> v.d
    [] v.k = "bool" -> IF v.b THEN <<"T","r","u","e">> ELSE <<"F","a","l","s","e">>

RECURSIVE SetToSeq(_)
\* the elements of a finite set, in some order
SetToSeq(S) ==
  IF S = {} THEN <<>>
  ELSE LET x == CHOOSE y \in S : TRUE IN <<x>> \o SetToSeq(S \ {x})

\* `for x in v` raises unless v is a list, a string or a dict
Iterable(v) == v.k \in {"list", "str", "dict"}

\* what `for x in v` yields: the items of a list, the characters of a
\* string, the keys of a dict
Iter(v) ==
  CASE v.k = "list" -> v.v
    [] v.k = "str"  -> [i \in 1..Len(v.s) |-> Str(<<v.s[i]>>)]
    [] v.k = "dict" -> [i \in 1..Cardinality(DOMAIN v.f) |-> Str(<<SetToSeq(DOMAIN v.f)[i]>>)]

RECURSIVE Join(_, _)
\* sep.join(parts)
Join(sep, parts) ==
  IF parts = <<>> THEN <<>>
  ELSE IF Len(parts) = 1 THEN parts[1]
  ELSE parts[1] \o sep \o Join(sep, Tail(parts))

cA == <<"A">>
cB == <<"B">>
cArray == <<"a","r","r","a","y">>
cThis  == <<"t","h","i","s">>
cZ     == <<"Z">>
cFn1   == <<"F","n","1">>
cNumber == <<"n","u","m","b","e","r">>
cString == <<"s","t","r","i","n","g">>

----------------------------------------------------------------------------
(* get_type *)

RECURSIVE get_type(_, _, _)

\* line 270-271: the node's own name between prefix and suffix
type_named(c, pre, post) == pre \o Format(c.f["name"]) \o post

\* the members of c[key], serialized with the parent's prefix and suffix
type_members(c, key, pre, post) ==
  [i \in 1..Len(Iter(c.f[key])) |-> get_type(Iter(c.f[key])[i], pre, post)]

\* line 276: a union. Iterating a number raises; the handler returns "".
type_union(c, pre, post) ==
  IF ~Iterable(c.f["types"]) THEN <<>>
  ELSE Join(<<" ", "|", " ">>, type_members(c, "types", pre, post))

\* a tuple whose members' exceptions reach the tuple's own handler
type_tuple_failfast(c, pre, post) ==
  IF ~Iterable(c.f["elements"]) THEN <<>>
  ELSE IF \E i \in 1..Len(Iter(c.f["elements"])) : Iter(c.f["elements"])[i].k # "dict"
  THEN <<>>
  ELSE Join(<<",">>, type_members(c, "elements", pre, post))

\* line 278: a tuple
type_tuple(c, pre, post) ==
  IF ~Iterable(c.f["elements"]) THEN <<>>
  ELSE Join(<<",">>, type_members(c, "elements", pre, post))

\* the wrapper marker without the "array" case
wrapper_marker_raw(c) == Get(c, "type", Str(<<>>))

\* lines 280-281: the wrapper marker
wrapper_marker(c) ==
  LET ct == Get(c, "type", Str(<<>>))
  IN  IF ct = Str(cArray) THEN Str(<<"[","]">>) ELSE ct

\* line 282: the inner type, the marker appended to the incoming suffix
type_wrapped(c, pre, post) ==
  get_type(c.f["elementType"], pre, post \o Format(wrapper_marker(c)))

\* line 289: the parameters that are serialized
eligible(name) == name # Str(cThis) /\ name # Str(cZ)

\* lines 287-291: pp, the serialized parameters
RECURSIVE fn_params(_, _)
fn_params(params, pre) ==
  IF params = <<>> THEN <<>>
  ELSE LET p  == Head(params)
           _n == Get(p, "name", Str(<<>>))
       IN  IF eligible(_n)
           THEN <<get_type(Get(p, "type", Dict(NoFields)), pre \o Format(_n) \o <<":">>, <<>>)>>
                \o fn_params(Tail(params), pre)
           ELSE fn_params(Tail(params), pre)

\* line 294: the name the function string starts with, read from the node itself
fn_name(c) == Format(Get(c, "name", Str(<<>>)))

\* line 294
fn_string(c, pp) ==
  fn_name(c) \o <<" ">> \o (IF pp # <<>> THEN <<"F","n">> ELSE <<>>)
    \o <<"(">> \o Join(<<",", " ">>, pp) \o <<")">>

\* lines 284-287: whether reaching the parameters raises: the declaration is
\* no dict (.get); sig[0] fails or is no dict (an empty list, a string, a
\* dict without the key 0, a number); the signature has no parameters
\* (iterating None) or they cannot be iterated; a parameter is no dict (p.get)
fn_raises(c) ==
  LET d == c.f["declaration"]
  IN  \/ d.k # "dict"
      \/ LET sig == Get(d, "signatures", List(<<>>))
         IN  \/ sig.k # "list"
             \/ sig.v = <<>>
             \/ sig.v[1].k # "dict"
             \/ ~Has(sig.v[1], "parameters")
             \/ ~Iterable(sig.v[1].f["parameters"])
             \/ \E i \in 1..Len(Iter(sig.v[1].f["parameters"])) :
                  Iter(sig.v[1].f["parameters"])[i].k # "dict"

\* lines 284-295: a function declaration
type_function(c, pre, post) ==
  IF fn_raises(c) THEN <<>>
  ELSE fn_string(c, fn_params(Iter(c.f["declaration"].f["signatures"].v[1].f["parameters"]), pre))

\* line 298: the nested type, "" when there is none
type_nested(c, pre, post) == get_type(Get(c, "type", Str(<<>>)), pre, post)

\* get_type with the union test ahead of the name test
get_type_types_first(c, pre, post) ==
  IF c.k # "dict" THEN <<>>
  ELSE IF Has(c, "types") THEN type_union(c, pre, post)
  ELSE IF Has(c, "name") THEN type_named(c, pre, post)
  ELSE IF Has(c, "elements") THEN type_tuple(c, pre, post)
  ELSE IF Has(c, "elementType") THEN type_wrapped(c, pre, post)
  ELSE IF Has(c, "declaration") THEN type_function(c, pre, post)
  ELSE type_nested(c, pre, post)

\* lines 266-302. On a value that is no dict every path raises inside the
\* try (`in` on a number, c['name'] or c.get on a string or a list) and the
\* handler of line 300 returns "".
get_type(c, pre, post) ==
  IF c.k # "dict" THEN <<>>
  ELSE IF Has(c, "name") THEN type_named(c, pre, post)
  ELSE IF Has(c, "types") THEN type_union(c, pre, post)
  ELSE IF Has(c, "elements") THEN type_tuple(c, pre, post)
  ELSE IF Has(c, "elementType") THEN type_wrapped(c, pre, post)
  ELSE IF Has(c, "declaration") THEN type_function(c, pre, post)
  ELSE type_nested(c, pre, post)

----------------------------------------------------------------------------
(* The helpers of the walk *)

cModule      == <<"M","o","d","u","l","e">>
cMethod      == <<"M","e","t","h","o","d">>
cAccessor    == <<"A","c","c","e","s","s","o","r">>
cVariable    == <<"V","a","r","i","a","b","l","e">>
cProperty    == <<"P","r","o","p","e","r","t","y">>
cConstructor == <<"C","o","n","s","t","r","u","c","t","o","r">>
cClass       == <<"C","l","a","s","s">>
cInterface   == <<"I","n","t","e","r","f","a","c","e">>
cEnum        == <<"E","n","u","m">>
cAny         == <<"a","n","y","?">>

\* Python's truth value of a JSON value
Truthy(v) ==
  CASE v.k = "str"  -> v.s # <<>>
    [] v.k = "num"  -> v.d # <<"0">>
    [] v.k = "bool" -> v.b
    [] v.k = "list" -> v.v # <<>>
    [] v.k = "dict" -> DOMAIN v.f # {}

RECURSIVE clean_quoted(_)
\* line 18: re.sub(r'\"', '', n): n without its double quotes
clean_quoted(n) ==
  IF n = <<>> THEN <<>>
  ELSE (IF Head(n) = "\"" THEN <<>> ELSE <<Head(n)>>) \o clean_quoted(Tail(n))

\* the filter that lets every name through
not_private_all(n) == TRUE

\* line 328: n[0] != "_"   (n is a non-empty string)
not_private(n) == n[1] # "_"

\* line 21: whether get_source raises: the sources cannot be iterated, or
\* one of them lacks fileName, line or character
source_raises(sources) ==
  \/ sources.k # "list"
  \/ \E i \in 1..Len(sources.v) :
       \/ sources.v[i].k # "dict"
       \/ ~({"fileName", "line", "character"} \subseteq DOMAIN sources.v[i].f)

\* line 21
get_source(sources) ==
  [i \in 1..Len(sources.v) |->
     <<sources.v[i].f["fileName"], sources.v[i].f["line"], sources.v[i].f["character"]>>]

\* line 264: shortText when it is truthy, else text, else ""
get_comment(c) ==
  LET cm == Get(c, "comment", Dict(NoFields))
      a  == Get(cm, "shortText", Bool(FALSE))
  IN  IF Truthy(a) THEN a ELSE Get(cm, "text", Str(<<>>))

\* f without the key k
Without(f, k) == [x \in DOMAIN f \ {k} |-> f[x]]

\* lines 331-333: the flags, isExported removed
get_flags(c) ==
  LET f == Get(c, "flags", Dict(NoFields)) IN Dict(Without(f.f, "isExported"))

\* c.get(key, {}).get('name', False)
NameOf(c, key) == Get(Get(c, key, Dict(NoFields)), "name", Bool(FALSE))

\* [ im.get('name', "") for im in c.get(key, []) ]
NamesOf(c, key) ==
  LET l == Get(c, key, List(<<>>))
  IN  [i \in 1..Len(l.v) |-> Get(l.v[i], "name", Str(<<>>))]

\* whether a node has a non-empty string as its name
HasName(c) == Has(c, "name") /\ c.f["name"].k = "str" /\ c.f["name"].s # <<>>

\* the parameter with the empty dict as the default of its type
parse_class_method_param_untyped(c) ==
  IF ~Truthy(Get(c, "name", Bool(FALSE))) THEN NoFields
  ELSE [ name    |-> c.f["name"],
         comment |-> get_comment(c),
         type    |-> Str(get_type(Get(c, "type", Dict(NoFields)), <<>>, <<>>)),
         default |-> Get(c, "defaultValue", Bool(FALSE)) ]

\* lines 223-232
parse_class_method_param(c) ==
  IF ~Truthy(Get(c, "name", Bool(FALSE))) THEN NoFields
  ELSE [ name    |-> c.f["name"],
         comment |-> get_comment(c),
         type    |-> Str(get_type(Get(c, "type", Dict([name |-> Str(cAny)])), <<>>, <<>>)),
         default |-> Get(c, "defaultValue", Bool(FALSE)) ]

\* lines 215-220
parse_class_method_signature(c) ==
  [ comment    |-> get_comment(c),
    returns    |-> Str(get_type(Get(c, "type", Dict(NoFields)), <<>>, <<>>)),
    parameters |-> LET ps == Get(c, "parameters", List(<<>>))
                   IN  [i \in 1..Len(ps.v) |-> parse_class_method_param(ps.v[i])] ]

\* lines 200-212
parse_class_method(c) ==
  IF ~Truthy(Get(c, "name", Bool(FALSE))) THEN NoFields
  ELSE [ name       |-> c.f["name"],
         source     |-> get_source(Get(c, "sources", List(<<>>))),
         id         |-> c.f["id"],
         flags      |-> get_flags(c),
         overrides  |-> NameOf(c, "overwrites"),
         inherits   |-> NameOf(c, "inheritedFrom"),
         signatures |-> LET ss == Get(c, "signatures", List(<<>>))
                        IN  [i \in 1..Len(ss.v) |-> parse_class_method_signature(ss.v[i])] ]

\* lines 157-164
parse_accessor_signature(c) ==
  IF ~Truthy(c) THEN Bool(FALSE)
  ELSE LET ty == [type |-> Get(Get(c, "type", Dict(NoFields)), "name", Str(<<>>))]
       IN  IF Truthy(Get(c, "parameters", Bool(FALSE)))
           THEN ty @@ [parameters |-> parse_class_method_param(c.f["parameters"].v[1])]
           ELSE ty

\* lines 141-142: the signatures of an accessor, normalized
accessor_signatures(c, key) ==
  LET l == Get(c, key, List(<<>>))
  IN  [i \in 1..Len(l.v) |-> parse_accessor_signature(l.v[i])]

\* lines 136-154
parse_class_accessor(c) ==
  IF ~Truthy(Get(c, "name", Bool(FALSE))) THEN NoFields
  ELSE LET getters == accessor_signatures(c, "getSignature")
           setters == accessor_signatures(c, "setSignature")
       IN  [ name      |-> c.f["name"],
             source    |-> get_source(Get(c, "sources", List(<<>>))),
             id        |-> c.f["id"],
             flags     |-> get_flags(c),
             overrides |-> NameOf(c, "overwrites"),
             inherits  |-> NameOf(c, "inheritedFrom"),
             comment   |-> get_comment(c),
             getter    |-> IF getters = <<>> THEN Bool(FALSE) ELSE getters[1],
             setter    |-> IF setters = <<>> THEN Bool(FALSE) ELSE setters[1] ]

\* lines 168-181 and 184-197: a variable and a property are normalized alike;
\* `type` is get_type of the member node itself
parse_class_variable(c) ==
  IF ~Truthy(Get(c, "name", Bool(FALSE))) THEN Bool(FALSE)
  ELSE [ name      |-> c.f["name"],
         source    |-> get_source(Get(c, "sources", List(<<>>))),
         id        |-> c.f["id"],
         flags     |-> get_flags(c),
         type      |-> Str(get_type(c, <<>>, <<>>)),
         overrides |-> NameOf(c, "overwrites"),
         inherits  |-> NameOf(c, "inheritedFrom"),
         comment   |-> get_comment(c) ]

parse_class_property(c) == parse_class_variable(c)

\* lines 23-31: m['name'], m['sources'] and m['id'] must be there
props_module_raises(m) ==
  \/ ~Has(m, "sources") \/ ~Has(m, "id")
  \/ source_raises(m.f["sources"])

\* lines 23-31
props_module(m) ==
  [ name    |-> Str(clean_quoted(m.f["name"].s)),
    source  |-> get_source(m.f["sources"]),
    kind    |-> Str(cModule),
    id      |-> m.f["id"],
    comment |-> get_comment(m),
    classes |-> <<>> ]

\* lines 34-49: c['sources'] and c['id'] must be there
props_class_raises(c) ==
  \/ ~Has(c, "sources") \/ ~Has(c, "id")
  \/ source_raises(c.f["sources"])

\* lines 34-49
props_class(c) ==
  [ name        |-> c.f["name"],
    source      |-> get_source(c.f["sources"]),
    kind        |-> c.f["kindString"],
    id          |-> c.f["id"],
    comment     |-> get_comment(c),
    constructor |-> <<>>,
    accessors   |-> <<>>,
    methods     |-> <<>>,
    variables   |-> <<>>,
    properties  |-> <<>>,
    flags       |-> get_flags(c),
    extends     |-> NamesOf(c, "extendedTypes"),
    implements  |-> NamesOf(c, "implementedTypes") ]

----------------------------------------------------------------------------
(* The walk.  A store is the program's accumulators,                       *)
(*   [modules, classes, korder, searches, skipped, err],                   *)
(* err set once an exception has left the walk; what was written before    *)
(* the exception stays written.                                            *)

Store(md, cl, ko, se, sk) ==
  [modules |-> md, classes |-> cl, korder |-> ko, searches |-> se, skipped |-> sk,
   err |-> FALSE]

Raise(st) == [st EXCEPT !.err = TRUE]

RecognizedKinds == {Str(cMethod), Str(cAccessor), Str(cVariable), Str(cProperty), Str(cConstructor)}

\* lines 111-132: whether the iteration on the child ch raises: ch['name']
\* is missing or has no first character, ch['kindString'] is missing, or
\* the member's normalizer misses c['id'] or cannot read the sources
member_raises(ch) ==
  \/ ch.k # "dict"
  \/ ~HasName(ch)
  \/ /\ not_private(ch.f["name"].s)
     /\ \/ ~Has(ch, "kindString")
        \/ /\ ch.f["kindString"] \in RecognizedKinds
           /\ (~Has(ch, "id") \/ source_raises(Get(ch, "sources", List(<<>>))))

\* lines 114-127: the bucket a child of kind k goes to, "" for none
bucket_of(k) ==
  CASE k = Str(cMethod)      -> "methods"
    [] k = Str(cAccessor)    -> "accessors"
    [] k = Str(cVariable)    -> "variables"
    [] k = Str(cProperty)    -> "properties"
    [] k = Str(cConstructor) -> "constructor"
    [] OTHER                 -> ""

\* lines 114-127: the normalizer of each kind
member_record(ch) ==
  CASE ch.f["kindString"] \in {Str(cMethod), Str(cConstructor)} -> parse_class_method(ch)
    [] ch.f["kindString"] = Str(cAccessor) -> parse_class_accessor(ch)
    [] ch.f["kindString"] = Str(cVariable) -> parse_class_variable(ch)
    [] ch.f["kindString"] = Str(cProperty) -> parse_class_property(ch)

\* lines 130, 132: the entry of the skip log for the child ch of the class c
member_skip(c, ch) == Format(c.name) \o <<".">> \o Format(ch.f["name"])

\* lines 111-132: one child ch of the class stored under fullname
parse_class_child(st, fullname, ch) ==
  IF member_raises(ch) THEN Raise(st)
  ELSE IF ~not_private(ch.f["name"].s) \/ bucket_of(ch.f["kindString"]) = ""
  THEN [st EXCEPT !.skipped = Append(@, member_skip(st.classes[fullname], ch))]
  ELSE [st EXCEPT !.classes[fullname][bucket_of(ch.f["kindString"])] =
                     Append(@, member_record(ch))]

RECURSIVE parse_class_children(_, _, _)
\* lines 108-132: the children chs of a class, in order, up to the first
\* one that raises
parse_class_children(st, fullname, chs) ==
  IF chs = <<>> \/ st.err THEN st
  ELSE parse_class_children(parse_class_child(st, fullname, Head(chs)), fullname, Tail(chs))

\* line 92: a child of a module is a class unless it is a Variable or private
is_class(c) == c.f["kindString"] # Str(cVariable) /\ not_private(c.f["name"].s)

\* lines 92-102: whether the iteration on the child c raises before the
\* class record is stored
class_raises(c) ==
  \/ c.k # "dict"
  \/ ~Has(c, "kindString")
  \/ ~Has(c, "name")
  \/ c.f["kindString"] # Str(cVariable) /\ ~HasName(c)
  \/ c.f["kindString"] # Str(cVariable) /\ not_private(c.f["name"].s) /\ props_class_raises(c)

\* line 94
fullname_of(mod_name, c) == mod_name \o <<"_">> \o Format(c.f["name"])

\* dict assignment d[key] = ...: a new key goes last in the iteration order
KeyAdded(ko, d, key) == IF key \in DOMAIN d THEN ko ELSE Append(ko, key)

\* line 95: the class record stored under its key
class_stored(st, fullname, c) ==
  [st EXCEPT !.classes = (fullname :> props_class(c)) @@ @,
             !.korder  = KeyAdded(@, st.classes, fullname)]

\* the name put at the head of the list
class_listed_first(st, names, fullname, c) ==
  IF st.err THEN [st |-> st, names |-> names]
  ELSE [st |-> [st EXCEPT !.searches =
                  Append(@, <<Str(fullname), c.f["name"], c.f["kindString"]>>)],
        names |-> <<c.f["name"]>> \o names]

\* lines 98-99: after the children, the name is listed and the class indexed
class_listed(st, names, fullname, c) ==
  IF st.err THEN [st |-> st, names |-> names]
  ELSE [st |-> [st EXCEPT !.searches =
                  Append(@, <<Str(fullname), c.f["name"], c.f["kindString"]>>)],
        names |-> Append(names, c.f["name"])]

\* lines 92-102: one child of a module; sn.names is the list parse_classes builds
parse_class(sn, mod_name, c) ==
  IF class_raises(c) THEN [st |-> Raise(sn.st), names |-> sn.names]
  ELSE IF is_class(c)
  THEN class_listed(parse_class_children(class_stored(sn.st, fullname_of(mod_name, c), c),
                                         fullname_of(mod_name, c),
                                         Iter(Get(c, "children", List(<<>>)))),
                    sn.names, fullname_of(mod_name, c), c)
  ELSE [st |-> [sn.st EXCEPT !.skipped = Append(@, fullname_of(mod_name, c))],
        names |-> sn.names]

RECURSIVE parse_classes_from(_, _, _)
parse_classes_from(sn, mod_name, cs) ==
  IF cs = <<>> \/ sn.st.err THEN sn
  ELSE parse_classes_from(parse_class(sn, mod_name, Head(cs)), mod_name, Tail(cs))

\* lines 83-104: the store after the call and the names it returns
parse_classes(st, mod, mod_name) ==
  IF ~Has(mod, "children") THEN [st |-> st, names |-> <<>>]
  ELSE parse_classes_from([st |-> st, names |-> <<>>], mod_name, Iter(mod.f["children"]))

\* line 62-64: whether clean_quoted(m['name']) or name[0] raises
module_name_raises(m) ==
  \/ m.k # "dict"
  \/ ~Has(m, "name")
  \/ m.f["name"].k # "str"
  \/ clean_quoted(m.f["name"].s) = <<>>

\* line 64
module_kept(m) == clean_quoted(m.f["name"].s)[1] # "_"

\* line 65: the module record stored under its name
module_stored(st, name, m) == [st EXCEPT !.modules = (name :> props_module(m)) @@ @]

\* the module indexed, the names parse_classes returned dropped
module_listed_unassigned(r, name) ==
  IF r.st.err THEN r.st
  ELSE [r.st EXCEPT !.searches = Append(@, <<Str(name), Str(name), Str(cModule)>>)]

\* lines 66-67: r is what parse_classes left and returned
module_listed(r, name) ==
  IF r.st.err THEN r.st
  ELSE [r.st EXCEPT !.modules[name].classes = r.names,
                    !.searches = Append(@, <<Str(name), Str(name), Str(cModule)>>)]

\* lines 62-70: one iteration of the loop of parse_modules
parse_module(st, m) ==
  IF module_name_raises(m) THEN Raise(st)
  ELSE IF ~module_kept(m)
  THEN [st EXCEPT !.skipped = Append(@, cModule \o <<".">> \o clean_quoted(m.f["name"].s))]
  ELSE IF props_module_raises(m) THEN Raise(st)
  ELSE module_listed(parse_classes(module_stored(st, clean_quoted(m.f["name"].s), m),
                                   m, clean_quoted(m.f["name"].s)),
                     clean_quoted(m.f["name"].s))

\* the first position of ch in s, 0 when there is none
RECURSIVE IndexOf(_, _, _)
IndexOf(s, ch, i) ==
  IF i > Len(s) THEN 0 ELSE IF s[i] = ch THEN i ELSE IndexOf(s, ch, i + 1)

\* key.split("_")
RECURSIVE Split(_)
Split(s) ==
  LET i == IndexOf(s, "_", 1)
  IN  IF i = 0 THEN <<s>>
      ELSE <<SubSeq(s, 1, i - 1)>> \o Split(SubSeq(s, i + 1, Len(s)))

\* the table of contents with each entry replaced by the latest class
RECURSIVE toc_from_latest(_, _)
toc_from_latest(t, keys) ==
  IF keys = <<>> THEN t
  ELSE LET c == Split(Head(keys))
       IN  toc_from_latest((c[1] :> <<c[2]>>) @@ t, Tail(keys))

\* lines 236-243: the table of contents from the keys of the class lookup,
\* in the order the dict yields them
RECURSIVE toc_from(_, _)
toc_from(t, keys) ==
  IF keys = <<>> THEN t
  ELSE LET c == Split(Head(keys))
       IN  toc_from(IF c[1] \in DOMAIN t
                    THEN (c[1] :> Append(t[c[1]], c[2])) @@ t
                    ELSE (c[1] :> <<c[2]>>) @@ t,
                    Tail(keys))

----------------------------------------------------------------------------
(* The type descriptors get_type is called on *)

\* values of size 1: a number and two leaf types
Leaves == {Num(<<"5">>), Named(cA), Named(cB)}

\* the `type` values a wrapper carries: none, "array", another kind
Markers == {{}, {<<"type", Str(cArray)>>}, {<<"type", Str(<<"X">>)>>}}

\* parameter names: x, y and the two that are left out
ParamNames == {<<"x">>, <<"y">>, cThis, cZ}

\* the type values of exactly s values, given those of every smaller size
\* (N[a], a < s) and the lists of them by total size (L[t + 1], t < s - 1):
\* unions, tuples, wrappers and nested types, the malformed ones among them
\* (a number as a member, as the member list, as the wrapped or nested type)
NodesOfSize(s, N, L) ==
  IF s = 1 THEN Leaves
  ELSE { Node({<<"types", List(l)>>}) : l \in L[s] } \cup
       { Node({<<"elements", List(l)>>}) : l \in L[s] } \cup
       { Node({<<"elementType", v>>} \cup m) : v \in N[s - 1], m \in Markers } \cup
       { Node({<<"type", v>>}) : v \in N[s - 1] } \cup
       (IF s = 2
        THEN { Node({<<"types", Num(<<"5">>)>>}), Node({<<"type", Str(cArray)>>}),
               Node({<<"types", List(<<>>)>>}), Node({<<"elements", List(<<>>)>>}),
               Dict(NoFields) }
        ELSE {})

\* the lists of type values of exactly t values together
ListsOfSize(t, N, L) ==
  IF t = 0 THEN {<<>>}
  ELSE UNION { {<<v>> \o r : v \in N[a], r \in L[t - a + 1]} : a \in 1..t }

RECURSIVE Grow(_, _, _, _)
Grow(s, n, N, L) ==
  IF s > n THEN N
  ELSE LET Ls == Append(L, ListsOfSize(s - 1, N, L))
       IN  Grow(s + 1, n, Append(N, NodesOfSize(s, N, Ls)), Ls)

\* type values of at most n values
TypeNodes(n) == LET N == Grow(1, n, <<>>, <<>>) IN UNION {N[s] : s \in 1..n}

\* the types a parameter of a function declaration carries: none, a leaf,
\* a union, an array, a number
ParamTypes ==
  { {}, {<<"type", Named(cNumber)>>}, {<<"type", Named(cString)>>},
    {<<"type", Node({<<"types", List(<<Named(cA), Named(cB)>>)>>})>>},
    {<<"type", Num(<<"5">>)>>} }

\* the parameters: named or not, typed or not, and a number in their place
Params ==
  { Node(nm \cup t) : nm \in {{}} \cup {{<<"name", Str(pn)>>} : pn \in ParamNames},
                      t \in ParamTypes }
  \cup {Num(<<"5">>)}

RECURSIVE ParamLists(_)
\* lists of at most n parameters
ParamLists(n) ==
  IF n = 0 THEN {<<>>}
  ELSE ParamLists(n - 1) \cup
       { <<p>> \o r : p \in Params, r \in {l \in ParamLists(n - 1) : Len(l) = n - 1} }

\* declarations: malformed ones, and signatures with parameters
Declarations(n) ==
  { Num(<<"5">>), Dict(NoFields),
    Node({<<"signatures", List(<<>>)>>}),
    Node({<<"signatures", List(<<Dict(NoFields)>>)>>}),
    Node({<<"signatures", List(<<Num(<<"5">>)>>)>>}),
    Node({<<"signatures", List(<<Node({<<"parameters", Num(<<"5">>)>>})>>)>>}) }
  \cup
  { Node(nm \cup {<<"signatures", List(<<Node({<<"parameters", List(ps)>>})>>)>>})
      : nm \in {{}, {<<"name", Str(cFn1)>>}}, ps \in ParamLists(n) }

\* function types: a node that carries a declaration
FunctionNodes(n) == { Node({<<"declaration", d>>}) : d \in Declarations(n) }

\* one more field on a node: the fields that compete in the dispatch
Competing ==
  { <<"name", Str(cFn1)>>,
    <<"types", List(<<Named(cB)>>)>>,
    <<"elements", List(<<Named(cB), Named(cA)>>)>>,
    <<"elementType", Named(cB)>>,
    <<"declaration", Node({<<"signatures", List(<<Node({<<"parameters", List(<<>>)>>})>>)>>})>>,
    <<"type", Named(cB)>> }

\* c with the field p = <<key, value>> added; the `type` of a wrapper stays
\* its marker
CanAdd(c, p) ==
  /\ c.k = "dict"
  /\ p[1] \notin DOMAIN c.f
  /\ ~(p[1] = "type" /\ "elementType" \in DOMAIN c.f)
  /\ ~(p[1] = "elementType" /\ "type" \in DOMAIN c.f)

WithField(c, p) == Dict((p[1] :> p[2]) @@ c.f)

TypeInputs ==
  LET small == TypeNodes(MaxSize - 1) \cup FunctionNodes(MaxParams - 1)
  IN  TypeNodes(MaxSize) \cup FunctionNodes(MaxParams)
      \cup { WithField(c, p) : <<c, p>> \in {q \in small \X Competing : CanAdd(q[1], q[2])} }

Prefixes == {<<>>, <<"p",".">>}
Suffixes == {<<>>, <<"?">>}

----------------------------------------------------------------------------
(* The declaration trees the walk is run on *)

cShapes == <<"S","h","a","p","e","s">>
cCircle == <<"C","i","r","c","l","e">>
cArea   == <<"a","r","e","a">>
cRadius == <<"r","a","d","i","u","s">>

Sources ==
  List(<<Dict([fileName |-> Str(<<"f">>), line |-> Num(<<"1">>), character |-> Num(<<"0">>)])>>)

\* a declaration node: its name, kind and id, and the fields in more
Decl(name, kind, id, more) ==
  Node({<<"name", Str(name)>>, <<"kindString", Str(kind)>>, <<"id", Num(id)>>} \cup more)

\* the node with these children, the field left out when there are none
WithChildren(c, chs) ==
  IF chs = <<>> THEN c ELSE Dict(("children" :> List(chs)) @@ c.f)

\* the members of a class: one of each kind the walk knows, a private one,
\* and one of a kind it does not know
Members ==
  { Decl(<<"f">>, cMethod, <<"1">>,
         {<<"sources", Sources>>,
          <<"signatures", List(<<Node({<<"type", Named(cNumber)>>,
                                        <<"parameters", List(<<Named(<<"r">>)>>)>>})>>)>>}),
    Decl(<<"_","f">>, cMethod, <<"2">>, {}),
    Decl(<<"k">>, cConstructor, <<"3">>, {<<"flags", Node({<<"isExported", Bool(TRUE)>>})>>}),
    Decl(<<"a">>, cAccessor, <<"4">>,
         {<<"getSignature", List(<<Node({<<"type", Named(cA)>>})>>)>>}),
    Decl(<<"v">>, cVariable, <<"5">>, {<<"type", Named(cNumber)>>}),
    Decl(<<"p">>, cProperty, <<"6">>, {<<"comment", Node({<<"text", Str(<<"t">>)>>})>>}),
    Decl(<<"e">>, cEnum, <<"7">>, {}) }

\* the children of a module, without their own children: three that are
\* kept (a class with every optional field, an interface with none, a class
\* whose name has an underscore inside), a private one, a Variable, and a
\* class without sources
ClassLabels ==
  { Decl(<<"C">>, cClass, <<"1">>,
         {<<"sources", Sources>>,
          <<"comment", Node({<<"shortText", Str(<<"s">>)>>})>>,
          <<"flags", Node({<<"isExported", Bool(TRUE)>>, <<"isStatic", Bool(TRUE)>>})>>,
          <<"extendedTypes", List(<<Named(cB)>>)>>}),
    Decl(<<"C","_","D">>, cClass, <<"2">>, {<<"sources", Sources>>}),
    Decl(<<"K">>, cInterface, <<"6">>, {<<"sources", Sources>>}),
    Decl(<<"_","C">>, cClass, <<"3">>, {<<"sources", Sources>>}),
    Decl(<<"V">>, cVariable, <<"4">>, {<<"sources", Sources>>}),
    Decl(<<"C">>, cClass, <<"5">>, {}) }

\* the candidate modules, without their children: a module with a comment,
\* one with a quoted name, a private one, and one without sources
ModuleLabels ==
  { Decl(<<"M">>, cModule, <<"1">>,
         {<<"sources", Sources>>, <<"comment", Node({<<"shortText", Str(<<"s">>)>>})>>}),
    Decl(<<"\"","N","\"">>, cModule, <<"2">>, {<<"sources", Sources>>}),
    Decl(<<"_","M">>, cModule, <<"3">>, {<<"sources", Sources>>}),
    Decl(<<"M">>, cModule, <<"4">>, {}) }

\* the sequences of exactly k elements of S
SeqsOfLen(S, k) == [1..k -> S]

\* T[t + 1]: the sequences of total size t of items, items[a] being the
\* items of size a
RECURSIVE SeqsTable(_, _, _)
SeqsTable(items, n, T) ==
  IF Len(T) > n THEN T
  ELSE LET t == Len(T)
       IN  SeqsTable(items, n,
             Append(T, UNION { {<<v>> \o r : v \in items[a], r \in T[t - a + 1]} : a \in 1..t }))

\* the sequences of items of total size at most n
SeqsUpTo(items, n) ==
  LET T == SeqsTable(items, n, <<{<<>>}>>) IN UNION {T[t + 1] : t \in 0..n}

\* the shapes of the declaration trees of at most n nodes: a sequence of
\* modules, a module a sequence of classes, a class its number of members
TreeShapes(n) ==
  LET ct == SeqsTable([a \in 1..n |-> {a - 1}], n, <<{<<>>}>>)
  IN  SeqsUpTo([a \in 1..n |-> ct[a]], n)

\* the sequences of classes of the shape cs
RECURSIVE ClassesOf(_)
ClassesOf(cs) ==
  IF cs = <<>> THEN {<<>>}
  ELSE { <<WithChildren(c, ms)>> \o r
           : c \in ClassLabels, ms \in SeqsOfLen(Members, Head(cs)),
             r \in ClassesOf(Tail(cs)) }

\* the declaration trees of the shape sh
RECURSIVE Trees(_)
Trees(sh) ==
  IF sh = <<>> THEN {<<>>}
  ELSE { <<WithChildren(m, cs)>> \o r
           : m \in ModuleLabels, cs \in ClassesOf(Head(sh)), r \in Trees(Tail(sh)) }

\* the parameters of a call signature: typed or not, with a comment and a
\* default value or without, named or not
SigParams ==
  { Node({<<"name", Str(cRadius)>>, <<"type", Named(cNumber)>>}),
    Node({<<"name", Str(<<"q">>)>>}),
    Node({<<"name", Str(<<"u">>)>>,
          <<"type", Node({<<"types", List(<<Named(cA), Named(cB)>>)>>})>>,
          <<"comment", Node({<<"shortText", Str(<<"c">>)>>})>>,
          <<"defaultValue", Str(<<"1">>)>>}),
    Node({<<"type", Named(cNumber)>>}) }

\* what a call signature returns: nothing stated, a leaf, an array
SigReturns ==
  { {}, {<<"type", Named(cNumber)>>},
    {<<"type", Node({<<"type", Str(cArray)>>, <<"elementType", Named(cA)>>})>>} }

\* the call signatures of size a: one for itself, one per parameter
SigsOfSize(a) ==
  { Node(r \cup (IF a = 1 THEN {} ELSE {<<"parameters", List(ps)>>}))
      : r \in SigReturns, ps \in SeqsOfLen(SigParams, a - 1) }

\* the methods and constructors whose signatures and parameters are at most n
Methods(n) ==
  { Decl(cArea, kind, <<"9">>,
         IF ss = <<>> THEN {} ELSE {<<"signatures", List(ss)>>})
      : kind \in {cMethod, cConstructor},
        ss \in SeqsUpTo([a \in 1..n |-> SigsOfSize(a)], n) }

\* a module with one class with one method
MethodTrees(n) ==
  { << WithChildren(Decl(cShapes, cModule, <<"1">>, {<<"sources", Sources>>}),
         << WithChildren(Decl(cCircle, cClass, <<"2">>, {<<"sources", Sources>>}), <<m>>) >>) >>
      : m \in Methods(n) }

----------------------------------------------------------------------------
(* The program: parse_modules(), then save_toc() *)

\* what docs.json may hold: a tree of any shape of at most MaxNodes
\* declarations, or a method of at most MaxMethod signatures and parameters
Shapes == TreeShapes(MaxNodes)
MethodInputs == MethodTrees(MaxMethod)

Init ==
  /\ \/ \E sh \in Shapes : data \in Trees(sh)
     \/ data \in MethodInputs
  /\ idx = 0
  /\ modules = NoFields /\ classes = NoFields /\ korder = <<>>
  /\ searches = <<>> /\ skipped = <<>>
  /\ files = NoFields /\ toc = NoFields
  /\ pc = "walk"
  /\ tnode = Dict(NoFields) /\ tpre = <<>> /\ tpost = <<>> /\ tres = <<>> /\ tpc = "idle"

Current == Store(modules, classes, korder, searches, skipped)

\* the accumulators become those of the store st
Becomes(st) ==
  /\ modules' = st.modules
  /\ classes' = st.classes
  /\ korder' = st.korder
  /\ searches' = st.searches
  /\ skipped' = st.skipped

\* lines 61-67: an iteration of the loop on a module that is kept
ParseModule ==
  /\ pc = "walk" /\ idx < Len(data)
  /\ \E st \in {parse_module(Current, data[idx + 1])} :
       /\ ~st.err
       /\ module_kept(data[idx + 1])
       /\ Becomes(st)
  /\ idx' = idx + 1
  /\ UNCHANGED <<data, files, toc, pc>>
  /\ UNCHANGED tvars

\* lines 61-64, 69-70: an iteration on a module whose name is private
SkipModule ==
  /\ pc = "walk" /\ idx < Len(data)
  /\ \E st \in {parse_module(Current, data[idx + 1])} :
       /\ ~st.err
       /\ ~module_kept(data[idx + 1])
       /\ Becomes(st)
  /\ idx' = idx + 1
  /\ UNCHANGED <<data, files, toc, pc>>
  /\ UNCHANGED tvars

\* an iteration that raises: nothing catches it, the run ends with what was
\* written so far
Abort ==
  /\ pc = "walk" /\ idx < Len(data)
  /\ \E st \in {parse_module(Current, data[idx + 1])} :
       /\ st.err
       /\ Becomes(st)
  /\ pc' = "aborted"
  /\ UNCHANGED <<data, idx, files, toc>>
  /\ UNCHANGED tvars

\* lines 72-73: every class record is written to its document
SaveClasses ==
  /\ pc = "walk" /\ idx = Len(data)
  /\ files' = classes
  /\ pc' = "toc"
  /\ UNCHANGED <<data, idx, modules, classes, korder, searches, skipped, toc>>
  /\ UNCHANGED tvars

\* lines 235-247
save_toc ==
  /\ pc = "toc"
  /\ toc' = toc_from(NoFields, korder)
  /\ pc' = "done"
  /\ UNCHANGED <<data, idx, modules, classes, korder, searches, skipped, files>>
  /\ UNCHANGED tvars

Next == ParseModule \/ SkipModule \/ Abort \/ SaveClasses \/ save_toc

Spec == Init /\ [][Next]_vars

----------------------------------------------------------------------------
(* Properties of the walk *)

\* the loop of parse_modules has run to its end
Walked == pc \in {"toc", "done"}

ChildrenOf(n) == Iter(Get(n, "children", List(<<>>)))

IsPrivate(n) == n # <<>> /\ n[1] = "_"

ModName(i) == clean_quoted(data[i].f["name"].s)

\* the modules the loop has consumed and kept
KeptModules == { i \in 1..idx : ~IsPrivate(ModName(i)) }

\* <<i, j>>: the j-th child of the kept module i passes the class predicate
KeptClasses ==
  { ij \in KeptModules \X (1..MaxNodes) :
      /\ ij[2] <= Len(ChildrenOf(data[ij[1]]))
      /\ ChildrenOf(data[ij[1]])[ij[2]].f["kindString"] # Str(cVariable)
      /\ ~IsPrivate(ChildrenOf(data[ij[1]])[ij[2]].f["name"].s) }

ClassAt(ij) == ChildrenOf(data[ij[1]])[ij[2]]

KeyOf(ij) == ModName(ij[1]) \o <<"_">> \o ClassAt(ij).f["name"].s

\* the elements of the sequence s
Range(s) == { s[i] : i \in 1..Len(s) }

\* how often x occurs in the sequence s
Count(s, x) == Cardinality({ i \in 1..Len(s) : s[i] = x })

Buckets == {"constructor", "accessors", "methods", "variables", "properties"}

\* the names the class record c holds in its buckets
MemberNames(c) ==
  UNION { { c[b][i].name.s : i \in { k \in 1..Len(c[b]) : "name" \in DOMAIN c[b][k] } }
          : b \in Buckets }

\* no private name anywhere in the normalized output
NoPrivateOutput ==
  /\ \A n \in DOMAIN modules :
       /\ ~IsPrivate(n) /\ ~IsPrivate(modules[n].name.s)
       /\ \A x \in Range(modules[n].classes) : ~IsPrivate(x.s)
  /\ \A d \in {classes, files} : \A key \in DOMAIN d :
       /\ ~IsPrivate(d[key].name.s)
       /\ \A x \in MemberNames(d[key]) : ~IsPrivate(x)
  /\ \A e \in Range(searches) : ~IsPrivate(e[2].s)

\* every private module, private child of a kept module and private member
\* of a kept class has its entry in the skip log
PrivateLogged ==
  /\ \A i \in 1..Len(data) :
       IsPrivate(ModName(i)) => (cModule \o <<".">> \o ModName(i)) \in Range(skipped)
  /\ \A i \in KeptModules : \A j \in 1..Len(ChildrenOf(data[i])) :
       LET c == ChildrenOf(data[i])[j]
       IN  IsPrivate(c.f["name"].s) =>
             (ModName(i) \o <<"_">> \o c.f["name"].s) \in Range(skipped)
  /\ \A ij \in KeptClasses : \A k \in 1..Len(ChildrenOf(ClassAt(ij))) :
       LET ch == ChildrenOf(ClassAt(ij))[k]
       IN  IsPrivate(ch.f["name"].s) =>
             (ClassAt(ij).f["name"].s \o <<".">> \o ch.f["name"].s) \in Range(skipped)

\* C4: the normalized output never holds a private name, and once the walk
\* is over every private module, private child of a kept module and private
\* member of a kept class is in the skip log.
C4_PrivateSkipped ==
  /\ NoPrivateOutput
  /\ Walked => PrivateLogged

\* the walk is over on a tree with a private module and a kept class that
\* has a private member: both are in the skip log
C4_Witness ==
  /\ pc = "done"
  /\ \E i \in 1..Len(data) : IsPrivate(ModName(i))
  /\ \E ij \in KeptClasses :
       \E k \in 1..Len(ChildrenOf(ClassAt(ij))) :
         IsPrivate(ChildrenOf(ClassAt(ij))[k].f["name"].s)
  /\ Len(skipped) = 2

\* the class ij has its key in the lookup, and the table of contents lists
\* its name once under its module's name
InTocOnce(ij) ==
  /\ KeyOf(ij) \in DOMAIN classes
  /\ classes[KeyOf(ij)].name = ClassAt(ij).f["name"]
  /\ ModName(ij[1]) \in DOMAIN toc
  /\ Count(toc[ModName(ij[1])], ClassAt(ij).f["name"].s) = 1

\* C5 as claimed: every kept class has the key {moduleName}_{className} and
\* the table of contents lists its name exactly once under its module.
C5_TocListsEveryClass ==
  pc = "done" => \A ij \in KeptClasses : InTocOnce(ij)

HasUnderscore(n) == \E i \in 1..Len(n) : n[i] = "_"

\* no kept module and no kept class has an underscore in its name
NoUnderscoreNames ==
  /\ \A i \in KeptModules : ~HasUnderscore(ModName(i))
  /\ \A ij \in KeptClasses : ~HasUnderscore(ClassAt(ij).f["name"].s)

\* C5, amended: every kept class has the key {moduleName}_{className}, and
\* when no kept module and no kept class has an underscore in its name the
\* table of contents lists its name exactly once under its module.
C5_TocWithoutUnderscores ==
  pc = "done" =>
    /\ \A ij \in KeptClasses :
         /\ KeyOf(ij) \in DOMAIN classes
         /\ classes[KeyOf(ij)].name = ClassAt(ij).f["name"]
    /\ NoUnderscoreNames => \A ij \in KeptClasses : InTocOnce(ij)

\* a module with two kept classes of different names, in the table
C5_Witness ==
  /\ pc = "done" /\ NoUnderscoreNames
  /\ \E ij \in KeptClasses : \E kl \in KeptClasses :
       /\ ij[1] = kl[1]
       /\ ClassAt(ij).f["name"] # ClassAt(kl).f["name"]
       /\ Len(toc[ModName(ij[1])]) = 2

\* the names of the children of the module i that pass the class predicate
RECURSIVE KeptNamesFrom(_)
KeptNamesFrom(cs) ==
  IF cs = <<>> THEN <<>>
  ELSE (IF Head(cs).f["kindString"] # Str(cVariable) /\ ~IsPrivate(Head(cs).f["name"].s)
        THEN <<Head(cs).f["name"]>> ELSE <<>>) \o KeptNamesFrom(Tail(cs))

\* no module consumed after the i-th has its name
LastOfName(i) == \A k \in KeptModules : k > i => ModName(k) # ModName(i)

\* C6: the class-name list of a module record is the names of the input
\* module's children that pass the class predicate, in input order, from the
\* step that consumes the module to the end of the run (the record of a
\* module is that of the last module consumed under its name).
C6_ClassOrder ==
  pc # "aborted" =>
    \A i \in KeptModules :
      LastOfName(i) => modules[ModName(i)].classes = KeptNamesFrom(ChildrenOf(data[i]))

\* a module whose second child is skipped and whose two kept children have
\* different names
C6_Witness ==
  /\ pc = "done"
  /\ \E i \in KeptModules :
       /\ Len(ChildrenOf(data[i])) = 3
       /\ Len(modules[ModName(i)].classes) = 2
       /\ modules[ModName(i)].classes[1] # modules[ModName(i)].classes[2]
       /\ modules[ModName(i)].classes[1] = ChildrenOf(data[i])[1].f["name"]
       /\ modules[ModName(i)].classes[2] = ChildrenOf(data[i])[3].f["name"]

\* the comment of a node as the documentation gives it: "" without one
CommentOf(n) ==
  IF ~Has(n, "comment") THEN Str(<<>>)
  ELSE IF Has(n.f["comment"], "shortText") THEN n.f["comment"].f["shortText"]
  ELSE n.f["comment"].f["text"]

\* the record of a named parameter
ParamRecord(p) ==
  [ name    |-> p.f["name"],
    comment |-> CommentOf(p),
    type    |-> IF Has(p, "type") THEN Str(get_type(p.f["type"], <<>>, <<>>)) ELSE Str(cAny),
    default |-> IF Has(p, "defaultValue") THEN p.f["defaultValue"] ELSE Bool(FALSE) ]

RECURSIVE NamedParamRecords(_)
NamedParamRecords(ps) ==
  IF ps = <<>> THEN <<>>
  ELSE (IF Has(Head(ps), "name") THEN <<ParamRecord(Head(ps))>> ELSE <<>>)
       \o NamedParamRecords(Tail(ps))

RECURSIVE NonEmpty(_)
\* the records of a list that are not the empty placeholder
NonEmpty(rs) ==
  IF rs = <<>> THEN <<>>
  ELSE (IF Head(rs) # NoFields THEN <<Head(rs)>> ELSE <<>>) \o NonEmpty(Tail(rs))

\* the children of the class node c of the given kind, in order
RECURSIVE OfKind(_, _)
OfKind(chs, kind) ==
  IF chs = <<>> THEN <<>>
  ELSE (IF Head(chs).f["kindString"] = Str(kind) /\ ~IsPrivate(Head(chs).f["name"].s)
        THEN <<Head(chs)>> ELSE <<>>) \o OfKind(Tail(chs), kind)

\* the record rec is that of the method or constructor node ch
MethodRecorded(rec, ch) ==
  LET ss == Iter(Get(ch, "signatures", List(<<>>)))
  IN  /\ rec.name = ch.f["name"]
      /\ Len(rec.signatures) = Len(ss)
      /\ \A s \in 1..Len(ss) :
           /\ rec.signatures[s].returns =
                Str(get_type(Get(ss[s], "type", Dict(NoFields)), <<>>, <<>>))
           /\ Len(rec.signatures[s].parameters) = Len(Iter(Get(ss[s], "parameters", List(<<>>))))
           /\ NonEmpty(rec.signatures[s].parameters) =
                NamedParamRecords(Iter(Get(ss[s], "parameters", List(<<>>))))

\* no class consumed after ij has its key
LastOfKey(ij) ==
  \A kl \in KeptClasses :
    (kl[1] > ij[1] \/ (kl[1] = ij[1] /\ kl[2] > ij[2])) => KeyOf(kl) # KeyOf(ij)

\* C7: the record of every kept Method or Constructor child of a kept class
\* (the class the lookup holds under its key) has one signature per input
\* signature, in order, `returns` the serialized `type` of the signature,
\* and one record {name, comment, type, default} per named parameter, in
\* order: type "any?" without a `type`, comment "" without a comment,
\* default false without a defaultValue.
C7_MethodSignatures ==
  Walked =>
    \A ij \in KeptClasses : LastOfKey(ij) =>
      \A b \in {<<"methods", cMethod>>, <<"constructor", cConstructor>>} :
        LET recs == classes[KeyOf(ij)][b[1]]
            chs  == OfKind(ChildrenOf(ClassAt(ij)), b[2])
        IN  /\ Len(recs) = Len(chs)
            /\ \A k \in 1..Len(chs) : MethodRecorded(recs[k], chs[k])

\* Shapes.Circle.area with two signatures, the first returning number with
\* the one parameter radius: number, no comment and no default value
C7_Witness ==
  /\ pc = "done"
  /\ (cShapes \o <<"_">> \o cCircle) \in DOMAIN classes
  /\ LET ms == classes[cShapes \o <<"_">> \o cCircle].methods
     IN  /\ Len(ms) = 1
         /\ Len(ms[1].signatures) = 2
         /\ ms[1].signatures[1].returns = Str(cNumber)
         /\ Len(ms[1].signatures[1].parameters) = 1
         /\ ms[1].signatures[1].parameters[1] =
              [name |-> Str(cRadius), type |-> Str(cNumber),
               comment |-> Str(<<>>), default |-> Bool(FALSE)]

\* C8: a module, class or member that lacks comment, flags or sources never
\* makes the run fail; the missing field is defaulted. (Every node of the
\* input trees has its name, kind and id: only these three fields are ever
\* missing.)
C8_MissingOptionalNeverFails ==
  /\ pc # "aborted"
  /\ \A i \in KeptModules :
       LastOfName(i) =>
         /\ ~Has(data[i], "comment") => modules[ModName(i)].comment = Str(<<>>)
         /\ ~Has(data[i], "sources") => modules[ModName(i)].source = <<>>

\* C9 as claimed: after the walk every kept class has its own entry in the
\* class lookup and its name exactly once in the list of its module.
C9_ExactlyOnce ==
  Walked =>
    /\ \A ij \in KeptClasses :
         /\ KeyOf(ij) \in DOMAIN classes
         /\ Count(modules[ModName(ij[1])].classes, ClassAt(ij).f["name"]) = 1
    /\ Cardinality(DOMAIN classes) = Cardinality(KeptClasses)

\* the kept modules have different names and the kept classes different keys
DistinctNames ==
  /\ \A i \in KeptModules : \A k \in KeptModules : ModName(i) = ModName(k) => i = k
  /\ \A ij \in KeptClasses : \A kl \in KeptClasses : KeyOf(ij) = KeyOf(kl) => ij = kl

\* C9, amended: after the walk of a tree whose kept modules have different
\* names and whose kept classes have different keys, every kept class has
\* its own entry in the class lookup and its name exactly once in the list
\* of its module.
C9_ExactlyOnceWhenDistinct ==
  (Walked /\ DistinctNames) =>
    /\ \A ij \in KeptClasses :
         /\ KeyOf(ij) \in DOMAIN classes
         /\ classes[KeyOf(ij)].id = ClassAt(ij).f["id"]
         /\ Count(modules[ModName(ij[1])].classes, ClassAt(ij).f["name"]) = 1
    /\ Cardinality(DOMAIN classes) = Cardinality(KeptClasses)

\* two kept modules of different names with a kept class each, both in the
\* lookup
C9_Witness ==
  /\ pc = "done" /\ DistinctNames
  /\ Cardinality(KeptModules) = 2
  /\ Cardinality(KeptClasses) = 2
  /\ Cardinality(DOMAIN classes) = 2

----------------------------------------------------------------------------
(* get_type called on its own *)

InitT ==
  /\ tnode \in TypeInputs
  /\ tpre \in Prefixes
  /\ tpost \in Suffixes
  /\ tres = <<>>
  /\ tpc = "ready"
  /\ data = <<>> /\ idx = 0 /\ modules = NoFields /\ classes = NoFields
  /\ korder = <<>> /\ searches = <<>> /\ skipped = <<>>
  /\ files = NoFields /\ toc = NoFields /\ pc = "idle"

CallGetType ==
  /\ tpc = "ready"
  /\ tres' = get_type(tnode, tpre, tpost)
  /\ tpc' = "returned"
  /\ UNCHANGED <<tnode, tpre, tpost>>
  /\ UNCHANGED wvars

NextT == CallGetType

SpecT == InitT /\ [][NextT]_vars

----------------------------------------------------------------------------
(* Properties of get_type *)

Returned == tpc = "returned"

\* the node with only the field its dispatch reads first (and, for a
\* wrapper, its marker)
FirstField(c) ==
  CASE Has(c, "name")        -> Node({<<"name", c.f["name"]>>})
    [] Has(c, "types")       -> Node({<<"types", c.f["types"]>>})
    [] Has(c, "elements")    -> Node({<<"elements", c.f["elements"]>>})
    [] Has(c, "elementType") ->
         Node({<<"elementType", c.f["elementType"]>>}
              \cup (IF Has(c, "type") THEN {<<"type", c.f["type"]>>} ELSE {}))
    [] Has(c, "declaration") -> Node({<<"declaration", c.f["declaration"]>>})
    [] Has(c, "type")        -> Node({<<"type", c.f["type"]>>})
    [] OTHER                 -> c

\* C1: a node with a `name` serializes to prefix + name + suffix whatever
\* else it carries, and in general a node serializes as the node that has
\* only the first field present in the order name, types, elements,
\* elementType, declaration, type.
C1_DispatchOrder ==
  (Returned /\ tnode.k = "dict") =>
    /\ Has(tnode, "name") => tres = tpre \o tnode.f["name"].s \o tpost
    /\ tres = get_type(FirstField(tnode), tpre, tpost)

\* a named node that also carries a union, called with a prefix and a suffix
C1_Witness ==
  /\ Returned /\ tnode.k = "dict"
  /\ Has(tnode, "name") /\ Has(tnode, "types")
  /\ tpre # <<>> /\ tpost # <<>>
  /\ tres = tpre \o tnode.f["name"].s \o tpost

\* a node whose declaration has a first signature with a parameter list of dicts
WellFormedFunction(c) ==
  /\ c.k = "dict" /\ ~Has(c, "name") /\ ~Has(c, "types") /\ ~Has(c, "elements")
  /\ ~Has(c, "elementType") /\ Has(c, "declaration")
  /\ ~fn_raises(c)

ParamsOf(c) == Iter(c.f["declaration"].f["signatures"].v[1].f["parameters"])

\* C2: a node without a `name` whose declaration's first signature has
\* parameters serializes to "<declarationName> Fn(<params>)", the marker
\* "Fn" only with an eligible parameter, <declarationName> the name of the
\* declaration.
C2_FunctionString ==
  (Returned /\ WellFormedFunction(tnode)) =>
    LET pp == fn_params(ParamsOf(tnode), tpre)
        dn == Format(Get(tnode.f["declaration"], "name", Str(<<>>)))
    IN  tres = dn \o <<" ">> \o (IF pp # <<>> THEN <<"F","n">> ELSE <<>>)
                 \o <<"(">> \o Join(<<",", " ">>, pp) \o <<")">>

\* raises_here(c): the call get_type(c, ..) raises in its own frame
raises_here(c) ==
  \/ c.k # "dict"
  \/ /\ ~Has(c, "name")
     /\ \/ Has(c, "types") /\ ~Iterable(c.f["types"])
        \/ ~Has(c, "types") /\ Has(c, "elements") /\ ~Iterable(c.f["elements"])
        \/ ~Has(c, "types") /\ ~Has(c, "elements") /\ ~Has(c, "elementType")
             /\ Has(c, "declaration") /\ fn_raises(c)

RECURSIVE triggers(_)
\* triggers(c): serializing c raises somewhere, in the call on c or in one
\* of the calls it makes
triggers(c) ==
  \/ raises_here(c)
  \/ /\ ~Has(c, "name")
     /\ IF Has(c, "types")
          THEN \E i \in 1..Len(Iter(c.f["types"])) : triggers(Iter(c.f["types"])[i])
        ELSE IF Has(c, "elements")
          THEN \E i \in 1..Len(Iter(c.f["elements"])) : triggers(Iter(c.f["elements"])[i])
        ELSE IF Has(c, "elementType") THEN triggers(c.f["elementType"])
        ELSE IF Has(c, "declaration")
          THEN \E i \in 1..Len(ParamsOf(c)) :
                 /\ eligible(Get(ParamsOf(c)[i], "name", Str(<<>>)))
                 /\ triggers(Get(ParamsOf(c)[i], "type", Dict(NoFields)))
        ELSE triggers(Get(c, "type", Str(<<>>)))

\* C3 as claimed: get_type returns a string, and a node whose serialization
\* triggers an internal exception yields the empty string.
C3_AnyExceptionYieldsEmpty ==
  Returned => /\ tres \in Seq(STRING)
              /\ triggers(tnode) => tres = <<>>

\* the strings of the members of a list, "" for each member that raises
MemberStrings(l, pre, post) ==
  [i \in 1..Len(l) |-> IF raises_here(l[i]) THEN <<>> ELSE get_type(l[i], pre, post)]

\* C3, amended: get_type returns a string on every input; the call in
\* whose own frame the exception is raised returns ""; a union or a tuple
\* with a malformed member still joins its members, the malformed one as "".
C3_FailSoftPerCall ==
  Returned =>
    /\ tres \in Seq(STRING)
    /\ raises_here(tnode) => tres = <<>>
    /\ (tnode.k = "dict" /\ ~Has(tnode, "name") /\ Has(tnode, "types")
          /\ tnode.f["types"].k = "list")
        => tres = Join(<<" ", "|", " ">>, MemberStrings(tnode.f["types"].v, tpre, tpost))
    /\ (tnode.k = "dict" /\ ~Has(tnode, "name") /\ ~Has(tnode, "types")
          /\ Has(tnode, "elements") /\ tnode.f["elements"].k = "list")
        => tres = Join(<<",">>, MemberStrings(tnode.f["elements"].v, tpre, tpost))

\* {elements: [{name: "A"}, 5]} has returned "A,"
C3_Witness ==
  /\ Returned
  /\ tnode = Node({<<"elements", List(<<Named(cA), Num(<<"5">>)>>)>>})
  /\ tpre = <<>> /\ tpost = <<>>
  /\ tres = <<"A", ",">>

\* the marker of a wrapper, as the documentation gives it
MarkerOf(c) ==
  IF ~Has(c, "type") THEN <<>>
  ELSE IF c.f["type"].s = cArray THEN <<"[", "]">>
  ELSE c.f["type"].s

IsWrapper(c) ==
  /\ c.k = "dict" /\ ~Has(c, "name") /\ ~Has(c, "types") /\ ~Has(c, "elements")
  /\ Has(c, "elementType")

IsNamed(c) == c.k = "dict" /\ Has(c, "name")

IsUnion(c) == c.k = "dict" /\ ~Has(c, "name") /\ Has(c, "types") /\ c.f["types"].k = "list"

IsTuple(c) ==
  /\ c.k = "dict" /\ ~Has(c, "name") /\ ~Has(c, "types")
  /\ Has(c, "elements") /\ c.f["elements"].k = "list"

\* C10: without a `name`, a union is its members joined by " | ", a tuple
\* its elements joined by ",", each member with the parent's prefix and
\* suffix; a wrapper is its inner type with the marker appended to the
\* incoming suffix, so nested wrappers accumulate their markers, the outer
\* one first, and a wrapped union carries the marker on every member.
C10_UnionTupleWrapper ==
  Returned =>
    /\ IsUnion(tnode) =>
         tres = Join(<<" ", "|", " ">>,
                     [i \in 1..Len(tnode.f["types"].v) |->
                        get_type(tnode.f["types"].v[i], tpre, tpost)])
    /\ IsTuple(tnode) =>
         tres = Join(<<",">>,
                     [i \in 1..Len(tnode.f["elements"].v) |->
                        get_type(tnode.f["elements"].v[i], tpre, tpost)])
    /\ IsWrapper(tnode) =>
         LET in == tnode.f["elementType"]
             m  == MarkerOf(tnode)
         IN  /\ tres = get_type(in, tpre, tpost \o m)
             /\ IsNamed(in) => tres = tpre \o in.f["name"].s \o tpost \o m
             /\ (IsWrapper(in) /\ IsNamed(in.f["elementType"])) =>
                  tres = tpre \o in.f["elementType"].f["name"].s \o tpost \o m \o MarkerOf(in)
             /\ (IsUnion(in) /\ \A i \in 1..Len(in.f["types"].v) : IsNamed(in.f["types"].v[i])) =>
                  tres = Join(<<" ", "|", " ">>,
                              [i \in 1..Len(in.f["types"].v) |->
                                 tpre \o in.f["types"].v[i].f["name"].s \o tpost \o m])

\* {type: "array", elementType: {types: [A, B]}} has returned "A[] | B[]"
C10_Witness ==
  /\ Returned
  /\ tnode = Node({<<"type", Str(cArray)>>,
                   <<"elementType", Node({<<"types", List(<<Named(cA), Named(cB)>>)>>})>>})
  /\ tpre = <<>> /\ tpost = <<>>
  /\ tres = <<"A", "[", "]", " ", "|", " ", "B", "[", "]">>

====
